---- MODULE Spec2Model ----
(***************************************************************************)
(* A model of localserver (src/localserver/main.py): the accept loop of    *)
(* LocalServer.accept_connections, the request-line parsing it does by     *)
(* hand, the routing of handle_request / handle_get_request /              *)
(* handle_head_request, and the three response writers (send_response,     *)
(* send_headers_only, send_file_response).                                 *)
(*                                                                         *)
(* Text is modelled as sequences of one-character strings, so that strip,  *)
(* split, replace, lstrip, join, normpath and startswith are computed the  *)
(* way the Python code computes them.                                      *)
(***************************************************************************)
EXTENDS Naturals, Sequences, FiniteSets, TLC

VARIABLES
    cwd,      \* os.getcwd(): the server root, fixed when the process starts
    pc,       \* position of accept_connections: "accept", "recv", "respond", "finally", "stopped"
    nconn,    \* number of connections accepted so far (the id of the newest)
    open,     \* ids of the client sockets that are accepted and not yet closed
    client,   \* the connection being handled (or the last one handled)
    server,   \* the LocalServer object: host, port, http_version
    observe,  \* history switch: TRUE in the runs that remember a response
    log,      \* history: the request and response of one earlier connection
    fmt       \* the direct call of format_file_size: its argument and its result

vars == <<cwd, pc, nconn, open, client, server, observe, log, fmt>>

\* what no step of accept_connections assigns
fixed == <<cwd, server, observe, fmt>>

----------------------------------------------------------------------------
(* Bounds of the model *)

\* longest request path, in segments, that the client set sends
MaxSegs == 2
\* connections accepted in one run
MaxConns == 2
\* the sendall calls of one connection that may fail are among the first MaxFaultIdx
MaxFaultIdx == 2
\* last value of the clock that formatdate() reads
MaxTime == 1
\* connections accepted in one run that remembers a response
MaxObserved == 3
\* longest size, in base-1024 digits, format_file_size is called with directly
\* (5 digits: sizes up to 1024^5 - 1, all below 2^53)
MaxSizeLimbs == 5

----------------------------------------------------------------------------
(* Python str primitives on sequences of characters *)

CR == "\r"
LF == "\n"
TAB == "\t"
SP == " "
SLASH == "/"

\* the characters str.strip() and str.split() treat as whitespace
Whitespace == {SP, TAB, CR, LF}

\* s.startswith(p)
StartsWith(s, p) == Len(p) <= Len(s) /\ SubSeq(s, 1, Len(p)) = p

\* s.endswith(p)
EndsWith(s, p) == Len(p) <= Len(s) /\ SubSeq(s, Len(s) - Len(p) + 1, Len(s)) = p

RECURSIVE LStripSet(_, _)
\* s.lstrip(chars)
LStripSet(s, chars) ==
    IF s # <<>> /\ Head(s) \in chars THEN LStripSet(Tail(s), chars) ELSE s

RECURSIVE RStripSet(_, _)
\* s.rstrip(chars)
RStripSet(s, chars) ==
    IF s # <<>> /\ s[Len(s)] \in chars
    THEN RStripSet(SubSeq(s, 1, Len(s) - 1), chars)
    ELSE s

\* s.strip()
Strip(s) == RStripSet(LStripSet(s, Whitespace), Whitespace)

RECURSIVE SplitSep(_, _, _)
\* s.split(sep) for a non-empty separator: cur is the piece being read
SplitSep(s, sep, cur) ==
    IF s = <<>> THEN <<cur>>
    ELSE IF StartsWith(s, sep)
         THEN <<cur>> \o SplitSep(SubSeq(s, Len(sep) + 1, Len(s)), sep, <<>>)
         ELSE SplitSep(Tail(s), sep, Append(cur, Head(s)))

\* s.split(sep)
Split(s, sep) == SplitSep(s, sep, <<>>)

RECURSIVE SplitWsFrom(_, _)
\* s.split(): runs of whitespace separate, no empty pieces
SplitWsFrom(s, cur) ==
    IF s = <<>> THEN (IF cur = <<>> THEN <<>> ELSE <<cur>>)
    ELSE IF Head(s) \in Whitespace
         THEN (IF cur = <<>> THEN <<>> ELSE <<cur>>) \o SplitWsFrom(Tail(s), <<>>)
         ELSE SplitWsFrom(Tail(s), Append(cur, Head(s)))

\* s.split()
SplitWs(s) == SplitWsFrom(s, <<>>)

RECURSIVE Replace(_, _, _)
\* s.replace(old, new), left to right, non-overlapping
Replace(s, old, new) ==
    IF s = <<>> THEN <<>>
    ELSE IF StartsWith(s, old)
         THEN new \o Replace(SubSeq(s, Len(old) + 1, Len(s)), old, new)
         ELSE <<Head(s)>> \o Replace(Tail(s), old, new)

RECURSIVE Join(_, _)
\* sep.join(parts)
Join(parts, sep) ==
    IF parts = <<>> THEN <<>>
    ELSE IF Len(parts) = 1 THEN parts[1]
    ELSE parts[1] \o sep \o Join(Tail(parts), sep)

----------------------------------------------------------------------------
(* posixpath: join, normpath, abspath *)

\* os.path.join(a, b)
PathJoin(a, b) ==
    IF StartsWith(b, <<SLASH>>) THEN b
    ELSE IF a = <<>> \/ EndsWith(a, <<SLASH>>) THEN a \o b
    ELSE a \o <<SLASH>> \o b

RECURSIVE NormComps(_, _, _)
\* the loop of posixpath.normpath over the components
NormComps(comps, acc, initial) ==
    IF comps = <<>> THEN acc
    ELSE LET comp == Head(comps)
             rest == Tail(comps)
         IN  IF comp = <<>> \/ comp = <<".">> THEN NormComps(rest, acc, initial)
             ELSE IF comp # <<".", ".">>
                     \/ (initial = 0 /\ acc = <<>>)
                     \/ (acc # <<>> /\ acc[Len(acc)] = <<".", ".">>)
                  THEN NormComps(rest, Append(acc, comp), initial)
                  ELSE IF acc # <<>>
                       THEN NormComps(rest, SubSeq(acc, 1, Len(acc) - 1), initial)
                       ELSE NormComps(rest, acc, initial)

\* the number of leading slashes posixpath.normpath keeps
InitialSlashes(path) ==
    IF ~StartsWith(path, <<SLASH>>) THEN 0
    ELSE IF StartsWith(path, <<SLASH, SLASH>>) /\ ~StartsWith(path, <<SLASH, SLASH, SLASH>>)
         THEN 2
         ELSE 1

\* posixpath.normpath(path)
NormPath(path) ==
    IF path = <<>> THEN <<".">>
    ELSE LET initial == InitialSlashes(path)
             comps == NormComps(Split(path, <<SLASH>>), <<>>, initial)
             joined == Join(comps, <<SLASH>>)
             out == IF initial = 2 THEN <<SLASH, SLASH>> \o joined
                    ELSE IF initial = 1 THEN <<SLASH>> \o joined
                    ELSE joined
         IN  IF out = <<>> THEN <<".">> ELSE out

\* os.path.abspath(path) when the working directory is wd
AbsPath(path, wd) ==
    NormPath(IF StartsWith(path, <<SLASH>>) THEN path ELSE PathJoin(wd, path))

----------------------------------------------------------------------------
(* The file system the server runs on *)

nW == <<"w">>
nW2 == <<"w", "2">>
nEtc == <<"e", "t", "c">>
nA == <<"a", ".", "t", "x", "t">>
nB == <<"b">>
nC == <<"c", ".", "z", "z">>
nD == <<"d">>
nFav == <<"f", "a", "v", "i", "c", "o", "n", ".", "i", "c", "o">>
nLnk == <<"l", "n", "k">>
nM == <<"m", " ", "f">>
nN == <<"n">>
nP == <<"p">>
nS == <<"s", ".", "t", "x", "t">>
nX == <<"x">>
nDot == <<".">>
nDotDot == <<".", ".">>

File(n, r) == [kind |-> "file", size |-> n, readable |-> r, entries |-> <<>>, target |-> <<>>]
Dir(es, r) == [kind |-> "dir", size |-> 0, readable |-> r, entries |-> es, target |-> <<>>]
Link(t) == [kind |-> "link", size |-> 0, readable |-> TRUE, entries |-> <<>>, target |-> t]
NoNode == [kind |-> "none", size |-> 0, readable |-> FALSE, entries |-> <<>>, target |-> <<>>]

\* The tree: /w and /w/b are the roots the server is started in; /w2 is a
\* sibling of /w whose name starts with "w"; /etc lies outside both; /w/lnk
\* is a symbolic link to /etc; /w/s.txt and /w/b/d cannot be read; /w/b has a
\* subdirectory named favicon.ico; /w/"m f" is empty.
\* A directory's entries are in the order os.listdir returns them (any order).
FSPaths ==
    { <<>>, <<nW>>, <<nW2>>, <<nEtc>>,
      <<nW, nA>>, <<nW, nB>>, <<nW, nFav>>, <<nW, nLnk>>, <<nW, nM>>, <<nW, nS>>,
      <<nW, nB, nC>>, <<nW, nB, nD>>, <<nW, nB, nFav>>,
      <<nW2, nX>>, <<nEtc, nP>> }

FS ==
    [p \in FSPaths |->
        CASE p = <<>> -> Dir(<<nW2, nW, nEtc>>, TRUE)
          [] p = <<nW>> -> Dir(<<nLnk, nFav, nS, nB, nM, nA>>, TRUE)
          [] p = <<nW2>> -> Dir(<<nX>>, TRUE)
          [] p = <<nEtc>> -> Dir(<<nP>>, TRUE)
          [] p = <<nW, nA>> -> File(17, TRUE)
          [] p = <<nW, nB>> -> Dir(<<nFav, nD, nC>>, TRUE)
          [] p = <<nW, nFav>> -> File(318, TRUE)
          [] p = <<nW, nLnk>> -> Link(<<nEtc>>)
          [] p = <<nW, nM>> -> File(0, TRUE)
          [] p = <<nW, nS>> -> File(5, FALSE)
          [] p = <<nW, nB, nC>> -> File(8193, TRUE)
          [] p = <<nW, nB, nD>> -> Dir(<<>>, FALSE)
          [] p = <<nW, nB, nFav>> -> Dir(<<>>, TRUE)
          [] p = <<nW2, nX>> -> File(9, TRUE)
          [] p = <<nEtc, nP>> -> File(11, TRUE)]

\* the working directories the server may be started in
Roots == { <<SLASH>> \o nW, <<SLASH>> \o nW \o <<SLASH>> \o nB }

RECURSIVE DropEmpty(_)
DropEmpty(parts) ==
    IF parts = <<>> THEN <<>>
    ELSE IF Head(parts) = <<>> THEN DropEmpty(Tail(parts))
    ELSE <<Head(parts)>> \o DropEmpty(Tail(parts))

\* the names of a path, as the kernel reads it
Names(path) == DropEmpty(Split(path, <<SLASH>>))

RECURSIVE Walk(_, _)
\* the kernel's path walk from the node at `at` along `names`, following
\* symbolic links (all link targets of the tree are absolute and link-free)
Walk(at, names) ==
    IF at \notin FSPaths THEN NoNode
    ELSE IF FS[at].kind = "link" THEN Walk(FS[at].target, names)
    ELSE IF names = <<>> THEN FS[at]
    ELSE IF FS[at].kind # "dir" THEN NoNode
    ELSE Walk(Append(at, Head(names)), Tail(names))

\* stat(path), following links
Stat(path) == Walk(<<>>, Names(path))

\* os.path.isfile(path)
IsFile(path) == Stat(path).kind = "file"

\* os.path.isdir(path)
IsDir(path) == Stat(path).kind = "dir"

\* os.path.getsize(path)
GetSize(path) == Stat(path).size

\* the code points order of the characters that occur in names
CharOrder ==
    <<" ", "%", ".", "/", "0", "2", "a", "b", "c", "d", "e", "f", "i", "k",
      "l", "m", "n", "o", "p", "s", "t", "v", "w", "x", "z">>

\* ord(c), up to an order-preserving renumbering
Ord(c) == CHOOSE i \in 1..Len(CharOrder) : CharOrder[i] = c

RECURSIVE StrLess(_, _)
\* a < b on Python str
StrLess(a, b) ==
    IF b = <<>> THEN FALSE
    ELSE IF a = <<>> THEN TRUE
    ELSE IF Head(a) = Head(b) THEN StrLess(Tail(a), Tail(b))
    ELSE Ord(Head(a)) < Ord(Head(b))

RECURSIVE Insert(_, _)
Insert(x, sorted) ==
    IF sorted = <<>> THEN <<x>>
    ELSE IF StrLess(x, Head(sorted)) THEN <<x>> \o sorted
    ELSE <<Head(sorted)>> \o Insert(x, Tail(sorted))

RECURSIVE Sorted(_)
\* list.sort() on a list of str
Sorted(names) ==
    IF names = <<>> THEN <<>> ELSE Insert(Head(names), Sorted(Tail(names)))

----------------------------------------------------------------------------
(* mimetypes.guess_type *)

RECURSIVE LastIndex(_, _, _)
\* s.rfind(c) among the first n characters, 0 when absent
LastIndex(s, c, n) ==
    IF n = 0 THEN 0 ELSE IF s[n] = c THEN n ELSE LastIndex(s, c, n - 1)

\* posixpath.splitext(path)[1]
SplitExt(path) ==
    LET sep == LastIndex(path, SLASH, Len(path))
        dot == LastIndex(path, ".", Len(path))
    IN  IF dot > sep /\ (\E i \in (sep + 1)..(dot - 1) : path[i] # ".")
        THEN SubSeq(path, dot, Len(path))
        ELSE <<>>

\* mimetypes.guess_type(path)[0]; "" stands for None
GuessType(path) ==
    LET ext == SplitExt(path)
    IN  IF ext = <<".", "t", "x", "t">> THEN "text/plain"
        ELSE IF ext = <<".", "i", "c", "o">> THEN "image/vnd.microsoft.icon"
        ELSE ""

----------------------------------------------------------------------------
(* What is written to a client socket *)

\* the default of LocalServer.__init__
HttpVersion == "HTTP/1.1"

\* bytes read from the file per chunk
ChunkSize == 8192

\* bytes of the error page around its two "<status> <message>" fields
ErrorPageFixedBytes == 3073
\* bytes of the listing page around its two request_path fields and its <li> items
ListingFixedBytes == 4482
\* bytes of the parent-directory <li> around its href
ParentItemBytes == 47
\* bytes of a <li> without a size (a directory, or a file whose getsize failed)
PlainItemBytes == 29
\* bytes of a file's <li> around its href, its name and its size
FileItemBytes == 67

Hdr(n, v) == [name |-> n, value |-> v]

\* "\r\n" as one piece of text
EOL == "\r\n"

\* f"{key}: {value}" for each item of response_headers, as pieces of text
HeaderLines(headers) == [i \in 1..Len(headers) |-> <<headers[i].name, ": ", headers[i].value>>]

\* f"{self.http_version} {status_code} {msg}\r\n{formatted_headers}\r\n\r\n",
\* as the sequence of the pieces the f-string puts together
FormatHead(version, status, msg, headers) ==
    <<version, " ", ToString(status), " ", msg, EOL>>
        \o Join(HeaderLines(headers), <<EOL>>) \o <<EOL, EOL>>

\* the status line and the headers as they are sent; status, reason and
\* headers are kept beside the text they were formatted from
HeadData(status, msg, headers) ==
    [kind |-> "head", version |-> server.http_version, status |-> status, reason |-> msg,
     headers |-> headers,
     text |-> FormatHead(server.http_version, status, msg, headers)]

\* the encoded content of a buffered response
BodyData(content, nbytes) == [kind |-> "body", content |-> content, nbytes |-> nbytes]

\* the bytes [off, off + len) of the file at path
ChunkData(path, off, len) == [kind |-> "chunk", path |-> path, off |-> off, len |-> len]

\* what a sendall that raised has left on the connection: some prefix of the data
Partial(data) == [kind |-> "partial", of |-> data]

\* a handler's view of the connection: what was written, the number of
\* sendall calls made, the file system calls made, the calls of handle_request
NewConn == [wire |-> <<>>, n |-> 0, ops |-> <<>>, routed |-> <<>>]

\* a file system call that returned
FsOp(h, op, path) == [h EXCEPT !.ops = Append(@, [op |-> op, path |-> path, err |-> ""])]

\* a file system call that raised OSError with this errno
FsFail(h, op, path, err) ==
    [h EXCEPT !.ops = Append(@, [op |-> op, path |-> path, err |-> err])]

\* in a fault set: the os.listdir or open of this request fails with an I/O error
IoFault == 0

\* client_socket.sendall(data); the calls whose index is in F raise
SendAll(h, data, F) ==
    LET k == h.n + 1
    IN  IF k \in F
        THEN [h |-> [h EXCEPT !.n = k, !.wire = Append(@, Partial(data))], ok |-> FALSE]
        ELSE [h |-> [h EXCEPT !.n = k, !.wire = Append(@, data)], ok |-> TRUE]

RECURSIVE SetHeader(_, _, _)
\* response_headers[name] = value on an insertion-ordered dict
SetHeader(headers, name, value) ==
    IF headers = <<>> THEN <<Hdr(name, value)>>
    ELSE IF Head(headers).name = name THEN <<Hdr(name, value)>> \o Tail(headers)
    ELSE <<Head(headers)>> \o SetHeader(Tail(headers), name, value)

RECURSIVE SumItemBytes(_)
SumItemBytes(items) ==
    IF items = <<>> THEN 0
    ELSE LET it == Head(items)
         IN  (IF it.size = "" THEN PlainItemBytes
              ELSE FileItemBytes + Len(it.size))
             + Len(it.href) + Len(it.text) + SumItemBytes(Tail(items))

\* len(content.encode("utf-8"))
Utf8Len(content) ==
    IF content.page = "error"
    THEN ErrorPageFixedBytes + 2 * (Len(ToString(content.status)) + 1 + Len(content.message))
    ELSE ListingFixedBytes + 2 * Len(content.title)
         + (IF content.parent = <<>> THEN 0 ELSE ParentItemBytes + Len(content.parent[1]))
         + SumItemBytes(content.items)

RECURSIVE MultiByteExtra(_)
\* bytes beyond one per character in the <li> items: 3 for the folder or page
\* sign, 2 for the dash before a size
MultiByteExtra(items) ==
    IF items = <<>> THEN 0
    ELSE (IF Head(items).size = "" THEN 3 ELSE 5) + MultiByteExtra(Tail(items))

\* len(content): characters, not bytes (the error page is ASCII; the listing
\* has two 4-byte signs in its frame and a 6-byte arrow in the parent link)
CharLen(content) ==
    IF content.page = "error" THEN Utf8Len(content)
    ELSE Utf8Len(content) - 6 - (IF content.parent = <<>> THEN 0 ELSE 4)
            - MultiByteExtra(content.items)

\* send_response with Content-Length taken from len(content) instead of
\* len(content_bytes)
send_response_char_count(h, headers, status, msg, content, F) ==
    LET h1 == SetHeader(headers, "Content-Length", ToString(CharLen(content)))
        h2 == SetHeader(h1, "Connection", "close")
        r1 == SendAll(h, HeadData(status, msg, h2), F)
    IN  IF r1.ok
        THEN SendAll(r1.h, BodyData(content, Utf8Len(content)), F).h
        ELSE r1.h

\* send_response without line 107: the headers go out as the caller gave them,
\* with the Content-Length
send_response_no_connection_header(h, headers, status, msg, content, F) ==
    LET h1 == SetHeader(headers, "Content-Length", ToString(Utf8Len(content)))
        r1 == SendAll(h, HeadData(status, msg, h1), F)
    IN  IF r1.ok
        THEN SendAll(r1.h, BodyData(content, Utf8Len(content)), F).h
        ELSE r1.h

\* LocalServer.send_response
send_response(h, headers, status, msg, content, F) ==
    LET h1 == SetHeader(headers, "Content-Length", ToString(Utf8Len(content)))
        h2 == SetHeader(h1, "Connection", "close")
        r1 == SendAll(h, HeadData(status, msg, h2), F)
    IN  IF r1.ok
        THEN SendAll(r1.h, BodyData(content, Utf8Len(content)), F).h
        ELSE r1.h

\* the page send_error_response renders
ErrorPage(status, message) == [page |-> "error", status |-> status, message |-> message]

\* LocalServer.send_error_response
send_error_response(h, status, message, F) ==
    send_response(h, <<Hdr("Content-Type", "text/html;charset=utf-8")>>,
                  status, message, ErrorPage(status, message), F)

\* send_headers_only written as a call of send_response: a page follows the headers
send_headers_only_as_send_response(h, headers, status, msg, F) ==
    send_response(h, headers, status, msg, ErrorPage(status, msg), F)

\* LocalServer.send_headers_only
send_headers_only(h, headers, status, msg, F) ==
    LET r == SendAll(h, HeadData(status, msg, headers), F)
    IN  IF r.ok THEN r.h
        ELSE send_error_response(r.h, 500, "Internal Server Error", F)

Min(a, b) == IF a < b THEN a ELSE b

RECURSIVE SendChunks(_, _, _, _, _)
\* the read/sendall loop of send_file_response from offset off
SendChunks(h, path, off, size, F) ==
    IF off >= size THEN [h |-> h, ok |-> TRUE]
    ELSE LET len == Min(ChunkSize, size - off)
             r == SendAll(h, ChunkData(path, off, len), F)
         IN  IF r.ok THEN SendChunks(r.h, path, off + len, size, F) ELSE r

\* the Content-Type the code falls back to
MimeOrDefault(path) ==
    IF GuessType(path) = "" THEN "application/octet-stream" ELSE GuessType(path)

\* the errno open(file_path, "rb") fails with, "" when it returns
OpenError(file_path, F) ==
    LET node == Stat(file_path)
    IN  IF node.kind = "none" THEN "ENOENT"
        ELSE IF ~node.readable THEN "EACCES"
        ELSE IF node.kind # "file" THEN "EISDIR"
        ELSE IF IoFault \in F THEN "EIO"
        ELSE ""

\* LocalServer.send_file_response
send_file_response(h, file_path, F) ==
    LET err == OpenError(file_path, F)
        h0 == FsOp(h, "open", file_path)
        node == Stat(file_path)
    IN  IF err # ""
        THEN send_error_response(FsFail(h, "open", file_path, err),
                                 500, "Internal Server Error", F)
        ELSE LET headers == << Hdr("Content-Type", MimeOrDefault(file_path)),
                               Hdr("Content-Length", ToString(node.size)),
                               Hdr("Connection", "close") >>
                 r1 == SendAll(h0, HeadData(200, "OK", headers), F)
                 r2 == SendChunks(r1.h, file_path, 0, node.size, F)
             IN  IF ~r1.ok THEN send_error_response(r1.h, 500, "Internal Server Error", F)
                 ELSE IF ~r2.ok THEN send_error_response(r2.h, 500, "Internal Server Error", F)
                 ELSE r2.h

----------------------------------------------------------------------------
(* Directory listings *)

UnitNames == <<"B", "KB", "MB", "GB">>

\* Python ints are unbounded: a size is the sequence of its base-1024 digits,
\* least significant first, without leading zeros (0 is <<>>)
RECURSIVE Limbs(_)
Limbs(n) == IF n = 0 THEN <<>> ELSE <<n % 1024>> \o Limbs(n \div 1024)

RECURSIVE LimbsValue(_)
\* the int a short digit sequence stands for
LimbsValue(d) == IF d = <<>> THEN 0 ELSE Head(d) + 1024 * LimbsValue(Tail(d))

RECURSIVE UnitLoop(_, _, _)
\* the while loop of format_file_size: after i divisions by 1024.0 size_bytes
\* is the integer `whole` (digits) plus the fraction `frac` (base-1024 digits
\* after the point, most significant first); the divisions are exact in
\* binary floating point for sizes below 2^53
UnitLoop(whole, frac, i) ==
    IF Len(whole) >= 2 /\ i < Len(UnitNames) - 1
    THEN UnitLoop(Tail(whole), <<Head(whole)>> \o frac, i + 1)
    ELSE [whole |-> whole, frac |-> frac, i |-> i]

RECURSIVE TimesTen(_)
\* 10 * 0.frac: carry is the integer part, frac the digits after the point
TimesTen(frac) ==
    IF frac = <<>> THEN [carry |-> 0, frac |-> <<>>]
    ELSE LET low == TimesTen(Tail(frac))
             v == Head(frac) * 10 + low.carry
         IN  [carry |-> v \div 1024, frac |-> <<v % 1024>> \o low.frac]

\* the digit after the point that "%.1f" prints for 0.frac, 10 when the
\* fraction rounds up to the next integer: round half to even on the exact value
Tenths(frac) ==
    LET t == TimesTen(frac)
        rest == t.frac
        above == rest # <<>> /\ (rest[1] > 512 \/
                    (rest[1] = 512 /\ \E k \in 2..Len(rest) : rest[k] # 0))
        tie == rest # <<>> /\ rest[1] = 512 /\ \A k \in 2..Len(rest) : rest[k] = 0
    IN  IF above THEN t.carry + 1
        ELSE IF tie THEN t.carry + (t.carry % 2)
        ELSE t.carry

\* the pieces of f"{size_bytes:.1f} {size_names[i]}"
FormatPieces(size) ==
    IF size = <<>> THEN <<"0 B">>
    ELSE LET u == UnitLoop(size, <<>>, 0)
             t == Tenths(u.frac)
             n == LimbsValue(u.whole) + (IF t = 10 THEN 1 ELSE 0)
         IN  <<ToString(n), ".", ToString(t % 10), " ", UnitNames[u.i + 1]>>

RECURSIVE Concat(_)
Concat(pieces) == IF pieces = <<>> THEN "" ELSE Head(pieces) \o Concat(Tail(pieces))

\* LocalServer.format_file_size
format_file_size(size) == Concat(FormatPieces(size))

\* one <li> of a listing
Item(href, text, isdir, size) == [href |-> href, text |-> text, dir |-> isdir, size |-> size]

RECURSIVE ListItems(_, _, _, _)
\* the for loop of handle_directory_listing: acc.h is the connection, acc.items the <li>s
ListItems(acc, names, dir_path, request_path) ==
    IF names = <<>> THEN acc
    ELSE LET item == Head(names)
             item_url == RStripSet(request_path, {SLASH}) \o <<SLASH>> \o item
             item_path == PathJoin(dir_path, item)
             h1 == FsOp(acc.h, "isdir", item_path)
             h2 == FsOp(h1, "getsize", item_path)
             next ==
                 IF IsDir(item_path)
                 THEN [h |-> h1,
                       items |-> Append(acc.items,
                                        Item(item_url \o <<SLASH>>, item \o <<SLASH>>, TRUE, ""))]
                 ELSE IF Stat(item_path).kind = "none"
                 THEN [h |-> h2, items |-> Append(acc.items, Item(item_url, item, FALSE, ""))]
                 ELSE [h |-> h2,
                       items |-> Append(acc.items,
                                        Item(item_url, item, FALSE,
                                             format_file_size(Limbs(GetSize(item_path)))))]
         IN  ListItems(next, Tail(names), dir_path, request_path)

\* "/".join(request_path.rstrip("/").split("/")[:-1]) or "/"
ParentPath(request_path) ==
    LET parts == Split(RStripSet(request_path, {SLASH}), <<SLASH>>)
        joined == Join(SubSeq(parts, 1, Len(parts) - 1), <<SLASH>>)
    IN  IF joined = <<>> THEN <<SLASH>> ELSE joined

\* lines 326-458: the listing of a directory that os.listdir has read
send_listing(h, dir_path, request_path, F) ==
    LET files_and_dirs == Sorted(Stat(dir_path).entries)
        parent == IF request_path # <<SLASH>>
                  THEN <<ParentPath(request_path)>>
                  ELSE <<>>
        listed == ListItems([h |-> h, items |-> <<>>], files_and_dirs,
                            dir_path, request_path)
        content == [page |-> "listing", title |-> request_path,
                    parent |-> parent, items |-> listed.items]
    IN  send_response(listed.h, <<Hdr("Content-Type", "text/html;charset=utf-8")>>,
                      200, "OK", content, F)

\* the errno os.listdir(dir_path) fails with, "" when it returns
ListdirError(dir_path, F) ==
    LET node == Stat(dir_path)
    IN  IF node.kind = "none" THEN "ENOENT"
        ELSE IF node.kind # "dir" THEN "ENOTDIR"
        ELSE IF ~node.readable THEN "EACCES"
        ELSE IF IoFault \in F THEN "EIO"
        ELSE ""

\* handle_directory_listing with one `except Exception` clause: a
\* PermissionError is answered like every other failure
handle_directory_listing_one_except(h, dir_path, request_path, F) ==
    LET err == ListdirError(dir_path, F)
    IN  IF err = ""
        THEN send_listing(FsOp(h, "listdir", dir_path), dir_path, request_path, F)
        ELSE send_error_response(FsFail(h, "listdir", dir_path, err),
                                 500, "Internal Server Error", F)

\* LocalServer.handle_directory_listing
handle_directory_listing(h, dir_path, request_path, F) ==
    LET err == ListdirError(dir_path, F)
    IN  IF err = ""
        THEN send_listing(FsOp(h, "listdir", dir_path), dir_path, request_path, F)
        ELSE IF err = "EACCES"
        THEN send_error_response(FsFail(h, "listdir", dir_path, err), 403, "Forbidden", F)
        ELSE send_error_response(FsFail(h, "listdir", dir_path, err),
                                 500, "Internal Server Error", F)

----------------------------------------------------------------------------
(* Routing *)

\* formatdate(timeval=None, localtime=False, usegmt=True) at clock value t
FormatDate(t) == "date-" \o ToString(t)

\* handle_head_request with its directory branch handing over to
\* handle_directory_listing, as handle_get_request does
handle_head_request_lists_directories(h, abs_path, t, F) ==
    LET h1 == FsOp(h, "isfile", abs_path)
        h2 == FsOp(h1, "getsize", abs_path)
        h3 == FsOp(h1, "isdir", abs_path)
    IN  IF IsFile(abs_path)
        THEN send_headers_only(h2,
                 << Hdr("Date", FormatDate(t)),
                    Hdr("Content-Length", ToString(GetSize(abs_path))),
                    Hdr("Content-Type", MimeOrDefault(abs_path)),
                    Hdr("Connection", "close") >>,
                 200, "OK", F)
        ELSE IF IsDir(abs_path)
        THEN handle_directory_listing(h3, abs_path, <<SLASH>>, F)
        ELSE send_headers_only(h3,
                 << Hdr("Date", FormatDate(t)),
                    Hdr("Content-Length", ToString(0)),
                    Hdr("Content-Type", "text/html;charset=utf-8"),
                    Hdr("Connection", "close") >>,
                 404, "Not Found", F)

\* LocalServer.handle_head_request
handle_head_request(h, abs_path, t, F) ==
    LET h1 == FsOp(h, "isfile", abs_path)
        h2 == FsOp(h1, "getsize", abs_path)
        h3 == FsOp(h1, "isdir", abs_path)
    IN  IF IsFile(abs_path)
        THEN send_headers_only(h2,
                 << Hdr("Date", FormatDate(t)),
                    Hdr("Content-Length", ToString(GetSize(abs_path))),
                    Hdr("Content-Type", MimeOrDefault(abs_path)),
                    Hdr("Connection", "close") >>,
                 200, "OK", F)
        ELSE IF IsDir(abs_path)
        THEN send_headers_only(h3,
                 << Hdr("Date", FormatDate(t)),
                    Hdr("Content-Type", MimeOrDefault(abs_path)),
                    Hdr("Content-Length", ToString(0)),
                    Hdr("Connection", "close") >>,
                 200, "OK", F)
        ELSE send_headers_only(h3,
                 << Hdr("Date", FormatDate(t)),
                    Hdr("Content-Length", ToString(0)),
                    Hdr("Content-Type", "text/html;charset=utf-8"),
                    Hdr("Connection", "close") >>,
                 404, "Not Found", F)

FAVICON == <<SLASH>> \o nFav

\* handle_get_request without its last branch: whatever is no directory is sent as a file
handle_get_request_no_404(h, request_path, abs_path, F) ==
    LET h1 == FsOp(h, "isdir", abs_path)
    IN  IF request_path = FAVICON
        THEN send_error_response(h, 404, "Not Found", F)
        ELSE IF IsDir(abs_path)
        THEN handle_directory_listing(h1, abs_path, request_path, F)
        ELSE send_file_response(h1, abs_path, F)

\* LocalServer.handle_get_request
handle_get_request(h, request_path, abs_path, F) ==
    LET h1 == FsOp(h, "isdir", abs_path)
        h2 == FsOp(h1, "isfile", abs_path)
    IN  IF request_path = FAVICON
        THEN send_error_response(h, 404, "Not Found", F)
        ELSE IF IsDir(abs_path)
        THEN handle_directory_listing(h1, abs_path, request_path, F)
        ELSE IF IsFile(abs_path)
        THEN send_file_response(h2, abs_path, F)
        ELSE send_error_response(h2, 404, "Not Found", F)

\* abs_path without os.path.abspath: the joined string as it is
ResolvePath_raw_join(request_path, wd) ==
    PathJoin(wd, LStripSet(request_path, {SLASH}))

\* abs_path of handle_request: the decoded request path resolved against wd
ResolvePath(request_path, wd) ==
    AbsPath(PathJoin(wd, LStripSet(request_path, {SLASH})), wd)

\* the containment test of handle_request
InsideRoot(abs_path, wd) == StartsWith(abs_path, wd)

\* LocalServer.handle_request
handle_request(h, raw_path, method, wd, t, F) ==
    LET request_path == Replace(raw_path, <<"%", "2", "0">>, <<SP>>)
        abs_path == ResolvePath(request_path, wd)
        h0 == [h EXCEPT !.routed = Append(@, [method |-> method, path |-> raw_path])]
    IN  IF ~InsideRoot(abs_path, wd)
        THEN send_error_response(h0, 403, "Forbidden", F)
        ELSE IF method = <<"H", "E", "A", "D">>
        THEN handle_head_request(h0, abs_path, t, F)
        ELSE IF method = <<"G", "E", "T">>
        THEN handle_get_request(h0, request_path, abs_path, F)
        ELSE h0

----------------------------------------------------------------------------
(* The requests clients send *)

GET == <<"G", "E", "T">>
HEAD == <<"H", "E", "A", "D">>
POST == <<"P", "O", "S", "T">>
LowerGet == <<"g", "e", "t">>
CRLF == <<CR, LF>>
Version == <<"H", "T", "T", "P", "/", "1", ".", "1">>
ROOT == <<SLASH>>

\* the segments request paths are built from
Segs == {nDotDot, nA, nB, nW2, nFav, nN}

\* "/" followed by the "/"-joined segments
PathOf(segs) == <<SLASH>> \o Join(segs, <<SLASH>>)

\* every path of 1..MaxSegs segments
GenPaths == { PathOf(q) : q \in UNION { [1..k -> Segs] : k \in 1..MaxSegs } }

\* further spellings: the root, doubled and trailing slashes, ".", "%20",
\* no leading slash, and the deeper entries of the tree
ExtraPaths ==
    { ROOT, <<SLASH, SLASH>>, <<SLASH, ".">>, nA,
      PathOf(<<nB, <<>>>>), PathOf(<<<<>>, nFav>>), PathOf(<<nDot, nA>>),
      PathOf(<<nB, nC>>), PathOf(<<nB, nD>>), PathOf(<<nLnk>>), PathOf(<<nLnk, nP>>),
      PathOf(<<nS>>),
      PathOf(<<<<"m", "%", "2", "0", "f">>>>), PathOf(<<nDotDot, nW2, nX>>),
      PathOf(<<nDotDot, nDotDot, nEtc, nP>>) }

Paths == GenPaths \cup ExtraPaths

\* a request line of three tokens, the blank line after it
Line(method, path) == method \o <<SP>> \o path \o <<SP>> \o Version \o CRLF \o CRLF

WellFormed ==
    { Line(m, p) : m \in {GET, HEAD}, p \in Paths }
    \cup { Line(m, p) : m \in {POST, LowerGet},
                        p \in {ROOT, PathOf(<<nA>>), PathOf(<<nDotDot, nW2, nX>>)} }
    \cup { GET \o <<TAB>> \o ROOT \o <<TAB>> \o Version \o CRLF,
           <<LF>> \o Line(HEAD, PathOf(<<nA>>)),
           <<SP, SP>> \o Line(GET, ROOT) }

\* request lines of 1, 2, 4 and 5 tokens
WrongCount ==
    { GET \o CRLF,
      GET \o <<SP>> \o ROOT \o CRLF \o CRLF,
      GET \o <<SP>> \o PathOf(<<nA>>) \o CRLF \o Line(GET, ROOT),
      GET \o <<SP>> \o ROOT \o <<SP>> \o Version \o <<SP>> \o <<"x">> \o CRLF,
      GET \o <<SP>> \o ROOT \o <<SP>> \o Version \o <<LF>> \o <<"x", ":", SP, "y">> \o CRLF,
      HEAD \o <<SP>> \o nM \o <<SP>> \o Version \o CRLF }

\* nothing but whitespace
Blank == { <<>>, CRLF, <<SP, SP>>, CRLF \o CRLF, <<TAB, LF>> }

\* an empty first line before something else
EmptyFirstLine ==
    { CRLF \o Line(GET, ROOT),
      <<SP>> \o CRLF \o Line(HEAD, PathOf(<<nA>>)),
      CRLF \o <<"x">> }

Requests == WellFormed \cup WrongCount \cup Blank \cup EmptyFirstLine

\* the requests sent in the runs that remember a response: one per kind of answer
Probes ==
    { Line(HEAD, PathOf(<<nA>>)), Line(GET, PathOf(<<nA>>)), Line(GET, ROOT),
      Line(HEAD, PathOf(<<nN>>)), Line(GET, PathOf(<<nDotDot, nDotDot, nEtc, nP>>)),
      Line(POST, ROOT), CRLF }

\* how client_socket.recv(4096).decode("utf-8") ends
RxKinds == {"data", "timeout", "error", "undecodable"}

----------------------------------------------------------------------------
(* accept_connections *)

\* request_lines[0].strip()
RequestLine(request) == Strip(Split(request, CRLF)[1])

\* Serve with the token count tested as "fewer than 3"
Serve_fewer_than_3(h, request, wd, t, F) ==
    LET request_line == RequestLine(request)
        request_parts == SplitWs(request_line)
    IN  IF Strip(request) = <<>>
        THEN send_error_response(h, 400, "Empty Request Received", F)
        ELSE IF request_line = <<>>
        THEN h
        ELSE IF Len(request_parts) < 3
        THEN send_error_response(h, 400, "Bad Request", F)
        ELSE IF request_parts[1] \notin {HEAD, GET}
        THEN send_error_response(h, 501, "Method Not Allowed", F)
        ELSE handle_request(h, request_parts[2], request_parts[1], wd, t, F)

\* Serve without the method test: every method reaches handle_request
Serve_no_method_test(h, request, wd, t, F) ==
    LET request_line == RequestLine(request)
        request_parts == SplitWs(request_line)
    IN  IF Strip(request) = <<>>
        THEN send_error_response(h, 400, "Empty Request Received", F)
        ELSE IF request_line = <<>>
        THEN h
        ELSE IF Len(request_parts) # 3
        THEN send_error_response(h, 400, "Bad Request", F)
        ELSE handle_request(h, request_parts[2], request_parts[1], wd, t, F)

\* the try block of accept_connections once the request is decoded
Serve(h, request, wd, t, F) ==
    LET request_line == RequestLine(request)
        request_parts == SplitWs(request_line)
    IN  IF Strip(request) = <<>>
        THEN send_error_response(h, 400, "Empty Request Received", F)
        ELSE IF request_line = <<>>
        THEN h
        ELSE IF Len(request_parts) # 3
        THEN send_error_response(h, 400, "Bad Request", F)
        ELSE IF request_parts[1] \notin {HEAD, GET}
        THEN send_error_response(h, 501, "Method Not Allowed", F)
        ELSE handle_request(h, request_parts[2], request_parts[1], wd, t, F)

\* Except with a single `except Exception` clause: a timeout is answered too
Except_answers_timeout(h, rx, F) ==
    send_error_response(h, 500, "Internal Server Error", F)

\* the except clauses of accept_connections
Except(h, rx, F) ==
    IF rx = "timeout" THEN h
    ELSE send_error_response(h, 500, "Internal Server Error", F)

NoClient == [id |-> 0, rx |-> "none", request |-> <<>>, h |-> NewConn]

\* the digits the sizes of direct calls are made of: 0, 1, the ends of the
\* range, exact quarters (ties of "%.1f") and the first digit that rounds x.9 up
EdgeLimbs == {0, 1, 256, 768, 973, 1023}

\* the sizes format_file_size is called with directly
Sizes ==
    {<<>>} \cup { d \in UNION { [1..k -> EdgeLimbs] : k \in 1..MaxSizeLimbs } :
                    d[Len(d)] # 0 }

NoCall == [size |-> <<>>, text |-> "", pieces |-> <<>>]

\* server.format_file_size(size), called on its own, once in a run
Format ==
    /\ fmt = NoCall
    /\ \E size \in Sizes :
          fmt' = [size |-> size, text |-> format_file_size(size),
                  pieces |-> FormatPieces(size)]
    /\ UNCHANGED <<cwd, pc, nconn, open, client, server, observe, log>>

\* LocalServer() with the defaults of __init__
NewServer == [host |-> "0.0.0.0", port |-> 8000, http_version |-> HttpVersion]

\* the process has started in cwd and is about to call accept for the first time
Start ==
    /\ cwd \in Roots
    /\ pc = "accept"
    /\ nconn = 0
    /\ open = {}
    /\ client = NoClient
    /\ server = NewServer
    /\ log = <<>>
    /\ fmt = NoCall

Init == Start /\ observe = FALSE

\* the same start, of a run whose clients send the requests of Probes and
\* in which the response to one of them is remembered
ObservedInit == Start /\ observe = TRUE

\* Accept with what was written so far kept on the server object instead of
\* starting from the new socket: state of one connection is read by the next
Accept_keeps_connection_state ==
    /\ pc = "accept"
    /\ nconn < (IF observe THEN MaxObserved ELSE MaxConns)
    /\ nconn' = nconn + 1
    /\ open' = open \cup {nconn + 1}
    /\ client' = [NoClient EXCEPT !.id = nconn + 1, !.h = client.h]
    /\ pc' = "recv"
    /\ UNCHANGED <<fixed, log>>

\* client_socket, client_address = self.server_socket.accept()
Accept ==
    /\ pc = "accept"
    /\ nconn < (IF observe THEN MaxObserved ELSE MaxConns)
    /\ nconn' = nconn + 1
    /\ open' = open \cup {nconn + 1}
    /\ client' = [NoClient EXCEPT !.id = nconn + 1]
    /\ pc' = "recv"
    /\ UNCHANGED <<fixed, log>>

\* request = client_socket.recv(4096).decode("utf-8")
Recv ==
    /\ pc = "recv"
    /\ \E rx \in RxKinds :
         \E req \in (IF rx # "data" THEN {<<>>}
                     ELSE IF observe THEN Probes ELSE Requests) :
            /\ client' = [client EXCEPT !.rx = rx, !.request = req]
            /\ pc' = IF rx = "data" THEN "respond" ELSE "except"
    /\ UNCHANGED <<fixed, nconn, open, log>>

\* lines 493-528: parse the request line and answer
Respond ==
    /\ pc = "respond"
    /\ \E F \in SUBSET (0..MaxFaultIdx), t \in 0..MaxTime :
          client' = [client EXCEPT !.h = Serve(@, client.request, cwd, t, F)]
    /\ pc' = "finally"
    /\ UNCHANGED <<fixed, nconn, open, log>>

\* Failed without the inner try of lines 534-539 and with a send_error_response
\* that lets a failed send through: the exception reaches line 549 and the loop ends
Failed_send_failure_propagates ==
    /\ pc = "except"
    /\ \E F \in SUBSET (1..MaxFaultIdx) :
          LET h1 == Except(client.h, client.rx, F)
          IN  /\ client' = [client EXCEPT !.h = h1]
              /\ pc' = IF \E i \in 1..Len(h1.wire) : h1.wire[i].kind = "partial"
                       THEN "stopped" ELSE "finally"
    /\ UNCHANGED <<fixed, nconn, open, log>>

\* lines 530-539: the read failed
Failed ==
    /\ pc = "except"
    /\ \E F \in SUBSET (1..MaxFaultIdx) :
          client' = [client EXCEPT !.h = Except(@, client.rx, F)]
    /\ pc' = "finally"
    /\ UNCHANGED <<fixed, nconn, open, log>>

\* history: an observed run may remember the request and the response of a
\* connection on which the request was read and no send failed, once
Remember ==
    \E keep \in BOOLEAN :
        log' = IF /\ keep /\ observe /\ log = <<>> /\ client.rx = "data"
                  /\ \A i \in 1..Len(client.h.wire) : client.h.wire[i].kind # "partial"
               THEN <<[id |-> client.id, request |-> client.request,
                       wire |-> client.h.wire, ops |-> client.h.ops]>>
               ELSE log

\* close() written as the last statement of the try block instead of in a
\* finally clause: a read that raises skips it
CloseClient_not_in_finally ==
    /\ pc = "finally"
    /\ open' = IF client.rx # "data" THEN open ELSE open \ {client.id}
    /\ pc' = "accept"
    /\ Remember
    /\ UNCHANGED <<fixed, nconn, client>>

\* close() reached only at the end of the try block: the branches that leave it
\* by `continue` before any routing keep the socket open
CloseClient_skipped_by_continue ==
    /\ pc = "finally"
    /\ open' = IF client.h.routed = <<>> /\ client.rx = "data" THEN open
               ELSE open \ {client.id}
    /\ pc' = "accept"
    /\ Remember
    /\ UNCHANGED <<fixed, nconn, client>>

\* lines 540-545: client_socket.close(), then back to accept
CloseClient ==
    /\ pc = "finally"
    /\ open' = open \ {client.id}
    /\ pc' = "accept"
    /\ Remember
    /\ UNCHANGED <<fixed, nconn, client>>

\* KeyboardInterrupt while blocked in accept: lines 547-556
Interrupt ==
    /\ pc = "accept"
    /\ pc' = "stopped"
    /\ UNCHANGED <<fixed, nconn, open, client, log>>

Next == Accept \/ Recv \/ Respond \/ Failed \/ CloseClient \/ Interrupt

Spec == Init /\ [][Next]_vars

\* the runs that only call format_file_size
SizeSpec == Init /\ [][Format]_vars

\* the runs that remember a response
ObservedSpec == ObservedInit /\ [][Next]_vars

\* the thread of accept_connections leaves position p
Leaves(p) == pc = p /\ pc' \in {"accept", "recv", "respond", "except", "finally"} \ {p}

\* What the code's scheduling guarantees: recv returns or times out after
\* 5 seconds (line 490), every handler terminates, and the finally block runs;
\* so the thread does not stay at "recv", "respond", "except" or "finally".
\* Whether a client connects, or an interrupt arrives, is up to the environment.
\* (Under Spec the steps that leave "recv" are the Recv steps, and so on.)
FairSpec ==
    /\ Spec
    /\ WF_pc(Leaves("recv"))
    /\ WF_pc(Leaves("respond"))
    /\ WF_pc(Leaves("except"))
    /\ WF_pc(Leaves("finally"))

----------------------------------------------------------------------------
(* Vocabulary of the properties *)

\* the request of the current connection has been answered (lines 493-528 are done)
Answered == client.rx = "data" /\ pc \in {"finally", "accept", "stopped"}

\* the current connection's socket has been closed
Closed == client.id > 0 /\ client.id \notin open

Wire == client.h.wire

\* no sendall of the current connection raised
NoSendFault == \A i \in 1..Len(Wire) : Wire[i].kind # "partial"

\* no file system call in ops met an I/O error
NoIoError(ops) == \A i \in 1..Len(ops) : ops[i].err # "EIO"

\* the data a sendall was called with
Unwrap(d) == IF d.kind = "partial" THEN d.of ELSE d

\* the status lines written whole
StatusLines(w) == SelectSeq(w, LAMBDA d : d.kind = "head")

\* the status codes of the responses the server started to send, in order
Attempted(w) ==
    LET u == [i \in 1..Len(w) |-> Unwrap(w[i])]
        hs == SelectSeq(u, LAMBDA d : d.kind = "head")
    IN  [i \in 1..Len(hs) |-> hs[i].status]

\* the first line of the request, trimmed, and its tokens
ReqLine == Strip(Split(client.request, CRLF)[1])
ReqTokens == SplitWs(ReqLine)
ThreeTokens == Len(ReqTokens) = 3
ReqMethod == ReqTokens[1]
ReqPath == Replace(ReqTokens[2], <<"%", "2", "0">>, <<SP>>)

\* a GET or HEAD request line of three tokens was answered
Routed(method) == Answered /\ ThreeTokens /\ ReqMethod = method

\* the location the request path resolves to
Target == ResolvePath(ReqPath, cwd)

\* a is b or an ancestor of b, name by name
IsAncestorOrSelf(a, b) ==
    Len(Names(a)) <= Len(Names(b)) /\ SubSeq(Names(b), 1, Len(Names(a))) = Names(a)

\* the target is the root or a descendant of the root
TargetInRoot == IsAncestorOrSelf(cwd, Target)

HasHeader(head, name, value) ==
    \E i \in 1..Len(head.headers) :
        head.headers[i].name = name /\ head.headers[i].value = value

HasHeaderNamed(head, name) ==
    \E i \in 1..Len(head.headers) : head.headers[i].name = name

\* w is one response: a status line with this status, then only body data
OneResponse(w, status) ==
    /\ Len(w) >= 1
    /\ w[1].kind = "head"
    /\ w[1].status = status
    /\ \A i \in 2..Len(w) : w[i].kind \in {"body", "chunk"}

\* the data after the headers is the file at path, byte for byte
BodyIsFile(w, path) ==
    /\ \A i \in 2..Len(w) :
          /\ w[i].kind = "chunk"
          /\ w[i].path = path
          /\ w[i].off = (IF i = 2 THEN 0 ELSE w[i - 1].off + w[i - 1].len)
          /\ w[i].len > 0
    /\ (IF Len(w) = 1 THEN 0 ELSE w[Len(w)].off + w[Len(w)].len) = GetSize(path)

----------------------------------------------------------------------------
(* C1: path containment *)

\* C1: a GET or HEAD whose path resolves to a location that is neither the
\* root nor a descendant of the root is answered with 403, never with 200, a
\* file body or a listing (stated for the connections on which no send fails).
C1_OutsideIs403 ==
    ((Routed(GET) \/ Routed(HEAD)) /\ ~TargetInRoot /\ NoSendFault)
        => /\ OneResponse(Wire, 403)
           /\ \A i \in 1..Len(Wire) : Wire[i].kind # "chunk"
           /\ \A i \in 1..Len(Wire) :
                 Wire[i].kind = "body" => Wire[i].content.page # "listing"

----------------------------------------------------------------------------
(* C2: GET of a file *)

\* C2: a GET of an existing (readable) regular file inside the root is
\* answered with 200, the Content-Type of its extension, and the file's
\* bytes, whatever the file is called (no send failing).
C2_GetFile ==
    (Routed(GET) /\ TargetInRoot /\ IsFile(Target) /\ Stat(Target).readable /\ NoSendFault
        /\ NoIoError(client.h.ops))
        => /\ OneResponse(Wire, 200)
           /\ HasHeader(Wire[1], "Content-Type",
                        IF GuessType(Target) = "" THEN "application/octet-stream"
                        ELSE GuessType(Target))
           /\ BodyIsFile(Wire, Target)

----------------------------------------------------------------------------
(* C3: HEAD of a file *)

\* C3: a HEAD of an existing regular file inside the root is answered with
\* 200, Content-Length equal to the file's size, a Content-Type header, and
\* nothing after the headers (no send failing).
C3_HeadFile ==
    (Routed(HEAD) /\ TargetInRoot /\ IsFile(Target) /\ NoSendFault)
        => /\ Len(Wire) = 1
           /\ OneResponse(Wire, 200)
           /\ HasHeader(Wire[1], "Content-Length", ToString(GetSize(Target)))
           /\ HasHeaderNamed(Wire[1], "Content-Type")

\* a HEAD of a non-empty file inside the root has been answered
C3_Witness ==
    Routed(HEAD) /\ TargetInRoot /\ IsFile(Target) /\ GetSize(Target) > 0 /\ NoSendFault

----------------------------------------------------------------------------
(* C4: what does not exist *)

\* C4: a GET or HEAD whose path resolves inside the root to nothing is
\* answered with 404; the HEAD answer has Content-Length 0 and no body
\* (no send failing).
C4_Missing ==
    ((Routed(GET) \/ Routed(HEAD)) /\ TargetInRoot /\ Stat(Target).kind = "none"
     /\ NoSendFault)
        => /\ OneResponse(Wire, 404)
           /\ Routed(HEAD) => (Len(Wire) = 1 /\ HasHeader(Wire[1], "Content-Length", "0"))

\* a GET of a missing path other than /favicon.ico has been answered
C4_Witness ==
    Routed(GET) /\ TargetInRoot /\ Stat(Target).kind = "none" /\ ReqPath # FAVICON
    /\ NoSendFault

----------------------------------------------------------------------------
(* C5: the wrong number of tokens *)

\* C5: a request whose first line is not empty and has fewer or more than 3
\* tokens gets one 400 response (whole when no send fails), is neither routed
\* nor looked up in the file system, and the finally block then closes it.
C5_WrongTokenCount ==
    (Answered /\ ReqLine # <<>> /\ Len(ReqTokens) # 3)
        => /\ Attempted(Wire) = <<400>>
           /\ NoSendFault => (OneResponse(Wire, 400) /\ Len(Wire) = 2)
           /\ client.h.routed = <<>>
           /\ client.h.ops = <<>>
           /\ pc = "finally" \/ Closed

\* a request line of more than 3 tokens was answered and its connection closed
C5_Witness ==
    Answered /\ Len(ReqTokens) > 3 /\ Closed /\ NoSendFault

----------------------------------------------------------------------------
(* C6: the empty first line *)

\* C6: a request whose first line is empty gets a 400 response, also when
\* later lines are not empty.
C6_EmptyFirstLine ==
    (Answered /\ ReqLine = <<>>) => Attempted(Wire) = <<400>>

----------------------------------------------------------------------------
(* C7: other methods *)

\* C7: a request line of three tokens whose method is neither GET nor HEAD
\* gets exactly one error response, with a 4xx/5xx status (501), whole when
\* no send fails, and never reaches handle_request.
C7_OtherMethod ==
    (Answered /\ ThreeTokens /\ ReqMethod \notin {GET, HEAD})
        => /\ Len(Attempted(Wire)) = 1
           /\ Attempted(Wire)[1] \in 400..599
           /\ Attempted(Wire)[1] = 501
           /\ NoSendFault => (OneResponse(Wire, 501) /\ Len(Wire) = 2)
           /\ client.h.routed = <<>>

\* a POST was answered
C7_Witness ==
    Answered /\ ThreeTokens /\ ReqMethod = POST /\ NoSendFault

----------------------------------------------------------------------------
(* C8: directory listings *)

\* the entry a listing item stands for
ItemName(it) == IF it.dir THEN SubSeq(it.text, 1, Len(it.text) - 1) ELSE it.text

\* C8: a GET whose path resolves to a (readable) directory inside the root is
\* answered with 200 and a listing with exactly one link per immediate child,
\* in ascending order of name, a child directory's link ending with "/" and a
\* child file's link not (no send failing).
C8_Listing ==
    (Routed(GET) /\ TargetInRoot /\ IsDir(Target) /\ Stat(Target).readable /\ NoSendFault
        /\ NoIoError(client.h.ops))
        => /\ OneResponse(Wire, 200)
           /\ Len(Wire) = 2
           /\ Wire[2].kind = "body"
           /\ Wire[2].content.page = "listing"
           /\ LET items == Wire[2].content.items
                  entries == Stat(Target).entries
              IN  /\ Len(items) = Len(entries)
                  /\ \A k \in 1..Len(entries) :
                        \E i \in 1..Len(items) : ItemName(items[i]) = entries[k]
                  /\ \A i, j \in 1..Len(items) :
                        i < j => StrLess(ItemName(items[i]), ItemName(items[j]))
                  /\ \A i \in 1..Len(items) :
                        /\ items[i].dir = IsDir(PathJoin(Target, ItemName(items[i])))
                        /\ EndsWith(items[i].href, <<SLASH>>) = items[i].dir
                        /\ EndsWith(items[i].href, <<SLASH>> \o items[i].text)

----------------------------------------------------------------------------
(* C9: every connection is closed *)

\* C9: every accepted connection is eventually closed, whatever path the
\* handling took, and nothing is written to a connection once it is closed.
C9_EveryConnectionCloses ==
    /\ \A i \in 1..MaxConns : (i \in open) ~> (i \notin open)
    /\ [][(Closed /\ client'.id = client.id) => client'.h.wire = client.h.wire]_vars

\* a connection on which a send failed has been closed
C9_Witness == Closed /\ client.rx = "data" /\ ~NoSendFault

----------------------------------------------------------------------------
(* C10: one response per connection *)

\* C10: on a closed connection whose request bytes were read, exactly one
\* status line was written (no send failing).
C10_ExactlyOneResponse ==
    (Closed /\ client.rx \in {"data", "undecodable"} /\ NoSendFault)
        => Len(StatusLines(Wire)) = 1

----------------------------------------------------------------------------
(* C11: the accept loop survives every failure of a connection *)

\* a failure of the current connection has shown: the read timed out or
\* raised, the bytes did not decode, the request was refused or not answered,
\* a file system call failed (4xx/5xx), or a sendall raised
ConnFailure ==
    /\ pc \in {"except", "finally"}
    /\ \/ client.rx # "data"
       \/ ~NoSendFault
       \/ Wire = <<>>
       \/ \E i \in 1..Len(Attempted(Wire)) : Attempted(Wire)[i] >= 400

----------------------------------------------------------------------------
(* C12: read timeout *)

\* C12: when the read of the request times out, no sendall is called on that
\* connection (no byte of a response is written), the connection is closed
\* and the loop is back at accept.
C12_TimeoutSilent ==
    /\ [](client.rx = "timeout" => (Wire = <<>> /\ client.h.n = 0))
    /\ [][(client.rx = "timeout" /\ pc = "finally") => (pc' = "accept" /\ Closed')]_vars
    /\ (client.rx = "timeout" /\ pc = "except") ~> (pc = "accept" /\ Closed /\ Wire = <<>>)

C12_Witness == client.rx = "timeout" /\ pc = "accept" /\ Closed /\ Wire = <<>>

----------------------------------------------------------------------------
(* C13: connections share no state *)

\* the current connection is closed, its request is the remembered one, sent
\* again on another connection, no send failed on either and the file
\* system answered both in the same way (no I/O error)
SameRequestAgain ==
    /\ Closed
    /\ log # <<>>
    /\ client.rx = "data"
    /\ NoSendFault
    /\ client.id # log[1].id
    /\ client.request = log[1].request
    /\ NoIoError(client.h.ops)
    /\ NoIoError(log[1].ops)

\* a response with the value of its Date header blanked
BlankDate(d) ==
    IF d.kind # "head" THEN d
    ELSE LET hs == [i \in 1..Len(d.headers) |->
                      IF d.headers[i].name = "Date" THEN Hdr("Date", "") ELSE d.headers[i]]
             k == CHOOSE j \in 1..Len(d.text) :
                      j + 2 <= Len(d.text) /\ d.text[j] = "Date" /\ d.text[j + 1] = ": "
         IN  IF \E i \in 1..Len(d.headers) : d.headers[i].name = "Date"
             THEN [d EXCEPT !.headers = hs, !.text = [@ EXCEPT ![k + 2] = ""]]
             ELSE d

WithoutDates(w) == [i \in 1..Len(w) |-> BlankDate(w[i])]

----------------------------------------------------------------------------
(* C14: the shape of every response head *)

\* the lines between the status line and the blank line, split at "\r\n"
HeadLinesOf(text) == Split(SubSeq(text, 7, Len(text) - 2), <<EOL>>)

\* text is "<version> <code> <reason>\r\n", header lines "name: value"
\* separated by "\r\n", among them a Content-Type and "Connection: close",
\* and "\r\n\r\n" at the end
WellFormedHeadText(text) ==
    /\ Len(text) >= 8
    /\ text[1] = server.http_version
    /\ text[2] = " "
    /\ text[3] \in {"200", "400", "403", "404", "500", "501"}
    /\ text[4] = " "
    /\ text[5] \notin {"", EOL}
    /\ text[6] = EOL
    /\ text[Len(text) - 1] = EOL
    /\ text[Len(text)] = EOL
    /\ LET lines == HeadLinesOf(text)
       IN  /\ \A i \in 1..Len(lines) :
                 /\ Len(lines[i]) = 3
                 /\ lines[i][2] = ": "
                 /\ lines[i][1] \notin {"", EOL}
                 /\ lines[i][3] \notin {"", EOL}
           /\ \E i \in 1..Len(lines) : lines[i][1] = "Content-Type"
           /\ \E i \in 1..Len(lines) : lines[i] = <<"Connection", ": ", "close">>

\* C14: every response head the server writes whole (200 file, 200 listing,
\* HEAD headers-only, every 400/403/404/500/501 page) is a status line
\* "<protocol-version> <status-code> <reason-phrase>", then headers that
\* include Content-Type and "Connection: close", then a blank line.
C14_HeadShape ==
    \A i \in 1..Len(Wire) : Wire[i].kind = "head" => WellFormedHeadText(Wire[i].text)

\* a streamed file was answered whole: head and chunks
C14_Witness ==
    /\ Answered
    /\ NoSendFault
    /\ Len(Wire) >= 2
    /\ Wire[1].kind = "head"
    /\ Wire[2].kind = "chunk"

----------------------------------------------------------------------------
(* C15: symbolic links that leave the root *)

RECURSIVE RealNames(_, _)
\* the location a path walk ends at once every symbolic link on the way is
\* replaced by its target (names below a missing node are kept as they are)
RealNames(at, names) ==
    IF at \in FSPaths /\ FS[at].kind = "link" THEN RealNames(FS[at].target, names)
    ELSE IF names = <<>> THEN at
    ELSE RealNames(Append(at, Head(names)), Tail(names))

\* the request path, taken literally, stays inside the root, but it passes
\* through a symbolic link and ends outside the root
EscapesByLink ==
    /\ TargetInRoot
    /\ LET real == RealNames(<<>>, Names(Target))
           root == Names(cwd)
       IN  ~(Len(root) <= Len(real) /\ SubSeq(real, 1, Len(root)) = root)

\* C15: a GET or HEAD whose path passes through a symbolic link inside the
\* root that points outside the root is answered with 403, and the target is
\* never stat-ed for content, opened, listed or served.
C15_SymlinkEscapeIs403 ==
    ((Routed(GET) \/ Routed(HEAD)) /\ EscapesByLink /\ NoSendFault)
        => /\ OneResponse(Wire, 403)
           /\ \A i \in 1..Len(client.h.ops) :
                 client.h.ops[i].op \notin {"open", "listdir", "getsize"}
           /\ \A i \in 1..Len(Wire) : Wire[i].kind # "chunk"

----------------------------------------------------------------------------
(* C16: format_file_size *)

\* what "%.1f" may print before the point for a number below 1024
Below1024 == { ToString(n) : n \in 0..1023 }

\* C16: 0 renders as "0 B"; for a size > 0 the unit is the largest of
\* B/KB/MB/GB with 1024^i <= size (1023 -> "1023.0 B", 1024 -> "1.0 KB",
\* 1048576 -> "1.0 MB"); the displayed number is below 1024 for every size
\* below 1024^4, and sizes of 1024^4 or more stay in GB.
C16_Units ==
    fmt # NoCall =>
        /\ (fmt.size = <<>> => fmt.text = "0 B")
        /\ (fmt.size = <<1023>> => fmt.text = "1023.0 B")
        /\ (fmt.size = <<0, 1>> => fmt.text = "1.0 KB")
        /\ (fmt.size = <<0, 0, 1>> => fmt.text = "1.0 MB")
        /\ (fmt.size # <<>> =>
              /\ Len(fmt.pieces) = 5
              /\ fmt.pieces[5] = UnitNames[Min(Len(fmt.size) - 1, 3) + 1]
              /\ (Len(fmt.size) <= 4 => fmt.pieces[1] \in Below1024))

----------------------------------------------------------------------------
(* C17: a failed write in the middle of a file *)

\* C17: when the sendall of a chunk of a streamed file fails (the 200 head
\* having been sent), nothing further is written to the connection: the
\* failed sendall is the last one, no second status line and no error page
\* follow.
C17_NothingAfterChunkFailure ==
    Answered =>
        \A k \in 1..Len(Wire) :
            (Wire[k].kind = "partial" /\ Wire[k].of.kind = "chunk")
                => /\ k = Len(Wire)
                   /\ client.h.n = k
                   /\ Len(Attempted(Wire)) = 1

----------------------------------------------------------------------------
(* C18: Content-Length *)

RECURSIVE BodyBytes(_)
\* the number of bytes written by a sequence of body sends
BodyBytes(w) ==
    IF w = <<>> THEN 0
    ELSE (IF Head(w).kind = "chunk" THEN Head(w).len ELSE Head(w).nbytes)
         + BodyBytes(Tail(w))

\* the value of the first header called name
HeaderValue(head, name) ==
    LET i == CHOOSE k \in 1..Len(head.headers) : head.headers[k].name = name
    IN  head.headers[i].value

\* a GET was answered by one response, and no send failed
BodyResponse ==
    /\ Answered
    /\ NoSendFault
    /\ Len(Wire) >= 1
    /\ Wire[1].kind = "head"
    /\ Len(StatusLines(Wire)) = 1
    /\ ~(ThreeTokens /\ ReqMethod = HEAD)

\* C18: in every response with a body that completes without a send failure
\* Content-Length is the number of body bytes written after the head: the
\* UTF-8 byte length of a buffered page; for a streamed file its size, sent
\* as consecutive chunks of 1..8192 bytes that add up to that size.
C18_ContentLength ==
    BodyResponse =>
        /\ HasHeaderNamed(Wire[1], "Content-Length")
        /\ HeaderValue(Wire[1], "Content-Length") = ToString(BodyBytes(Tail(Wire)))
        /\ \A i \in 2..Len(Wire) :
              /\ Wire[i].kind = "body" =>
                    (Len(Wire) = 2 /\ Wire[i].nbytes = Utf8Len(Wire[i].content))
              /\ Wire[i].kind = "chunk" =>
                    /\ Wire[i].len \in 1..ChunkSize
                    /\ Wire[i].off = (IF i = 2 THEN 0 ELSE Wire[i - 1].off + Wire[i - 1].len)
                    /\ (i < Len(Wire) => Wire[i].len = ChunkSize)
                    /\ BodyBytes(Tail(Wire)) = GetSize(Wire[i].path)

\* a file of more than one chunk was sent whole
C18_Witness ==
    /\ BodyResponse
    /\ Len(Wire) = 3
    /\ Wire[2].kind = "chunk"
    /\ Wire[3].kind = "chunk"

----------------------------------------------------------------------------
(* C19: the parent-directory link *)

\* a GET was answered with a listing of a directory inside the root
ListingSent ==
    /\ Routed(GET)
    /\ NoSendFault
    /\ TargetInRoot
    /\ Len(Wire) = 2
    /\ Wire[2].kind = "body"
    /\ Wire[2].content.page = "listing"

\* the request path with its last segment removed, "/" when one segment remains
WithoutLastSegment(path) ==
    LET segs == DropEmpty(Split(path, <<SLASH>>))
    IN  <<SLASH>> \o Join(SubSeq(segs, 1, Len(segs) - 1), <<SLASH>>)

\* C19: a listing of the server root has no parent link, however the request
\* path that resolved to the root was spelled ("/", "//", "/."); a listing of
\* a directory below the root has one, pointing at the request path without
\* its last segment.
C19_ParentLink ==
    ListingSent =>
        IF Names(Target) = Names(cwd)
        THEN Wire[2].content.parent = <<>>
        ELSE Wire[2].content.parent = <<WithoutLastSegment(ReqPath)>>

----------------------------------------------------------------------------
(* C20: failures of the file system while routing *)

\* the last file system call of the current connection failed this way
LastFsCall(op, errs) ==
    LET ops == client.h.ops
    IN  /\ ops # <<>>
        /\ ops[Len(ops)].op = op
        /\ ops[Len(ops)].err \in errs

\* the only response on the connection is the error page for this status
OnlyErrorPage(status) ==
    /\ OneResponse(Wire, status)
    /\ Len(Wire) = 2
    /\ Wire[2].kind = "body"
    /\ Wire[2].content.page = "error"
    /\ Wire[2].content.status = status

\* C20: while routing a GET, a permission error of os.listdir is answered
\* with 403, any other failure of os.listdir with 500, and a failure to open
\* the file, permission denied included, with 500; the error page is the
\* only response on the connection (no send failing).
C20_FailureMapping ==
    (Routed(GET) /\ NoSendFault) =>
        /\ LastFsCall("listdir", {"EACCES"}) => OnlyErrorPage(403)
        /\ LastFsCall("listdir", {"EIO", "ENOENT", "ENOTDIR"}) => OnlyErrorPage(500)
        /\ LastFsCall("open", {"EACCES", "EIO", "ENOENT", "EISDIR"}) => OnlyErrorPage(500)

\* os.listdir was refused on a directory inside the root and 403 was sent
C20_Witness ==
    /\ Routed(GET)
    /\ NoSendFault
    /\ LastFsCall("listdir", {"EACCES"})
    /\ Attempted(Wire) = <<403>>

----------------------------------------------------------------------------
(* C21: one connection at a time *)

\* C21: at every moment at most one accepted client socket is open, none is
\* open while the loop is at its accept call, and accept returns the next
\* connection only when the previous one has been closed.
C21_OneAtATime ==
    /\ [](Cardinality(open) <= 1 /\ (pc = "accept" => open = {}))
    /\ [][nconn' # nconn => (open = {} /\ open' = {nconn'})]_vars

\* the second connection is being read and the first one is closed
C21_Witness ==
    /\ nconn = 2
    /\ pc = "recv"
    /\ open = {2}

----------------------------------------------------------------------------
(* C22: the paths of file system calls *)

\* path is absolute, without empty, "." or ".." segments
IsNormalised(path) ==
    LET segs == Split(path, <<SLASH>>)
    IN  /\ Len(segs) >= 2
        /\ segs[1] = <<>>
        /\ \A i \in 2..Len(segs) : segs[i] \notin {<<>>, nDot, nDotDot}

\* C22: every path a file system call of a request is made on (isfile, isdir,
\* getsize, open, listdir) is a normalised absolute path whose string starts
\* with the root's string; a request whose normalised path fails the prefix
\* test causes no file system call at all.
C22_FsPaths ==
    /\ \A i \in 1..Len(client.h.ops) :
          /\ IsNormalised(client.h.ops[i].path)
          /\ StartsWith(client.h.ops[i].path, cwd)
    /\ ((Routed(GET) \/ Routed(HEAD)) /\ ~StartsWith(NormPath(Target), cwd))
          => client.h.ops = <<>>

\* a request path with ".." in it led to file system calls
C22_Witness ==
    /\ Routed(GET)
    /\ \E i \in 1..Len(ReqPath) - 1 : ReqPath[i] = "." /\ ReqPath[i + 1] = "."
    /\ client.h.ops # <<>>

----------------------------------------------------------------------------
(* C23: HEAD of a directory *)

\* a HEAD whose path resolves to a directory inside the root was answered,
\* no send failing
HeadOfDirectory ==
    /\ Routed(HEAD)
    /\ TargetInRoot
    /\ IsDir(Target)
    /\ NoSendFault

\* C23: a HEAD of a directory inside the root (HEAD / included) is answered
\* with 200, headers only, Content-Length 0: nothing follows the head, no
\* listing is sent and os.listdir is not called.
C23_HeadDirectory ==
    HeadOfDirectory =>
        /\ Len(Wire) = 1
        /\ Wire[1].kind = "head"
        /\ Wire[1].status = 200
        /\ HasHeader(Wire[1], "Content-Length", "0")
        /\ \A i \in 1..Len(client.h.ops) : client.h.ops[i].op \notin {"listdir", "open"}

\* HEAD / was answered
C23_Witness ==
    /\ HeadOfDirectory
    /\ ReqPath = ROOT
    /\ Len(Wire) = 1

----------------------------------------------------------------------------
(* C24: the order of the checks *)

\* the status the checks give when applied in the order shape, method,
\* containment, target; 0 where the target decides between 200 and 404
FirstFailedCheck ==
    IF ~ThreeTokens THEN 400
    ELSE IF ReqMethod \notin {GET, HEAD} THEN 501
    ELSE IF ~TargetInRoot THEN 403
    ELSE 0

\* no file system call of the current connection failed
NoFsError == \A i \in 1..Len(client.h.ops) : client.h.ops[i].err = ""

\* C24: the checks are applied in the order shape (400), method (501),
\* containment (403), target (404/200), and the first that fails gives the
\* one response: an unsupported method gets 501 even on an escaping path, an
\* escaping path gets 403 for GET and HEAD alike whether or not the target
\* exists, and the file system is consulted only when the first three pass.
C24_CheckOrder ==
    (Answered /\ NoSendFault) =>
        IF FirstFailedCheck # 0
        THEN /\ OneResponse(Wire, FirstFailedCheck)
             /\ Len(Wire) = 2
             /\ client.h.ops = <<>>
        ELSE NoFsError => (OneResponse(Wire, 200) \/ OneResponse(Wire, 404))

====
